---- MODULE Spec2Model ----
(***************************************************************************)
(* Model of app.py: the NIFTY 15-minute MACD dashboard.                    *)
(*                                                                         *)
(* Timestamps are minutes since 00:00 of day 0 in the frame the provider   *)
(* reports them in.  Floating point values are fixed-point integers with   *)
(* Scale units per 1.0, every division rounding toward minus infinity;     *)
(* NaN is a reserved value, and every comparison with NaN is false.        *)
(***************************************************************************)
EXTENDS Integers, Sequences, FiniteSets

VARIABLES hist, tz, route, pc, seen, df, ind, current_signal, status

vars == <<hist, tz, route, pc, seen, df, ind, current_signal, status>>

----------------------------------------------------------------------------
(* Bounds of the model *)

\* longest provider history drawn at start
MaxRows == 3
\* the provider publishes a further bar while its history is shorter than this
MaxFeed == 2
\* fixed-point units per 1.0
Scale == 1000

----------------------------------------------------------------------------
(* Program constants *)

SessionOpen == 555
SessionClose == 930
BucketWidth == 15
KolkataOffset == 330
FastSpan == 12
SlowSpan == 26
SignalSpan == 9

\* a provider field that is not a number, and what to_numeric makes of it
Bad == -1
NaN == -999999999

DayMinutes == 24 * 60

----------------------------------------------------------------------------
(* Sequence helpers *)

Col(rows, c) == [k \in DOMAIN rows |-> rows[k][c]]

RECURSIVE SumSeq(_)
SumSeq(s) == IF s = <<>> THEN 0 ELSE s[1] + SumSeq(Tail(s))

IsNaN(v) == v = NaN
NotNaN(s) == SelectSeq(s, LAMBDA v: ~IsNaN(v))

\* float comparisons: false when either side is NaN
Gt(a, b) == ~IsNaN(a) /\ ~IsNaN(b) /\ a > b
Lt(a, b) == ~IsNaN(a) /\ ~IsNaN(b) /\ a < b
Ge(a, b) == ~IsNaN(a) /\ ~IsNaN(b) /\ a >= b
Le(a, b) == ~IsNaN(a) /\ ~IsNaN(b) /\ a <= b

----------------------------------------------------------------------------
(* get_nifty_15min: clean *)

\* tz_localize keeps the wall clock of a naive stamp, tz_convert shifts an
\* aware (UTC) one to Asia/Kolkata
ToKolkata(z, t) == IF z = "naive" THEN t ELSE t + KolkataOffset

ToNumeric(v) == IF v = Bad THEN NaN ELSE v * Scale

Clean(z, rows) ==
    [k \in DOMAIN rows |->
        [datetime |-> ToKolkata(z, rows[k].datetime),
         open     |-> ToNumeric(rows[k].open),
         high     |-> ToNumeric(rows[k].high),
         low      |-> ToNumeric(rows[k].low),
         close    |-> ToNumeric(rows[k].close),
         volume   |-> ToNumeric(rows[k].volume)]]

TimeOfDay(t) == t % DayMinutes

\* the close of the window taken as exclusive
InSessionOpenEnded(t) == TimeOfDay(t) >= SessionOpen /\ TimeOfDay(t) < SessionClose

InSession(t) == TimeOfDay(t) >= SessionOpen /\ TimeOfDay(t) <= SessionClose

SessionFilter(rows) == SelectSeq(rows, LAMBDA r: InSession(r.datetime))

----------------------------------------------------------------------------
(* get_nifty_15min: resample *)

Bucket(t) == (t \div BucketWidth) * BucketWidth

\* resample lays bins edge to edge from the first row's bucket to the last's
Bins(rows) ==
    IF rows = <<>> THEN <<>>
    ELSE LET lo == Bucket(rows[1].datetime)
             hi == Bucket(rows[Len(rows)].datetime)
         IN [k \in 1..((hi - lo) \div BucketWidth + 1) |-> lo + (k - 1) * BucketWidth]

InBin(rows, b) == SelectSeq(rows, LAMBDA r: r.datetime >= b /\ r.datetime < b + BucketWidth)

\* the aggregations skip NaN; all but the sum are NaN when nothing is left
AggFirst(s) == LET v == NotNaN(s) IN IF v = <<>> THEN NaN ELSE v[1]
AggLast(s) == LET v == NotNaN(s) IN IF v = <<>> THEN NaN ELSE v[Len(v)]
AggMax(s) == LET v == NotNaN(s)
               IN IF v = <<>> THEN NaN
                  ELSE CHOOSE m \in {v[k] : k \in DOMAIN v} : \A k \in DOMAIN v : v[k] <= m
AggMin(s) == LET v == NotNaN(s)
               IN IF v = <<>> THEN NaN
                  ELSE CHOOSE m \in {v[k] : k \in DOMAIN v} : \A k \in DOMAIN v : v[k] >= m
AggSum(s) == SumSeq(NotNaN(s))

Agg(rows, b) ==
    LET g == InBin(rows, b)
    IN [datetime |-> b,
        open     |-> AggFirst(Col(g, "open")),
        high     |-> AggMax(Col(g, "high")),
        low      |-> AggMin(Col(g, "low")),
        close    |-> AggLast(Col(g, "close")),
        volume   |-> AggSum(Col(g, "volume"))]

DropNa(rows) ==
    SelectSeq(rows, LAMBDA r: ~IsNaN(r.open) /\ ~IsNaN(r.high) /\ ~IsNaN(r.low)
                              /\ ~IsNaN(r.close) /\ ~IsNaN(r.volume))

Resample(rows) ==
    LET bins == Bins(rows)
    IN DropNa([k \in DOMAIN bins |-> Agg(rows, bins[k])])

\* positions counted in calendar buckets from the first bar, gaps included
AssignXByBucket(rows) ==
    [k \in DOMAIN rows |->
        [datetime |-> rows[k].datetime, open |-> rows[k].open, high |-> rows[k].high,
         low |-> rows[k].low, close |-> rows[k].close, volume |-> rows[k].volume,
         x |-> (rows[k].datetime - rows[1].datetime) \div BucketWidth]]

AssignX(rows) ==
    [k \in DOMAIN rows |->
        [datetime |-> rows[k].datetime, open |-> rows[k].open, high |-> rows[k].high,
         low |-> rows[k].low, close |-> rows[k].close, volume |-> rows[k].volume,
         x |-> k - 1]]

\* the frame get_nifty_15min returns for a non-empty provider answer
Frame15(z, rows) == AssignX(Resample(SessionFilter(Clean(z, rows))))

----------------------------------------------------------------------------
(* macd_signals *)

RECURSIVE EwmFrom(_, _, _, _, _)
EwmFrom(xs, span, i, weighted, old_wt) ==
    IF i > Len(xs) THEN <<>>
    ELSE LET ow == (old_wt * (span - 1)) \div (span + 1)
             w  == (ow * weighted + Scale * xs[i]) \div (ow + Scale)
         IN <<w>> \o EwmFrom(xs, span, i + 1, w, ow + Scale)

\* the average seeded with zero in place of the first value
EwmZeroSeed(xs, span) ==
    IF xs = <<>> THEN <<>> ELSE EwmFrom(xs, span, 1, 0, Scale)

\* ewm(span).mean() with the default adjust=True: the average of the values
\* so far, the value i steps back weighted (1 - 2/(span+1))^i
Ewm(xs, span) ==
    IF xs = <<>> THEN <<>> ELSE <<xs[1]>> \o EwmFrom(xs, span, 2, xs[1], Scale)

Shift(s) == [k \in DOMAIN s |-> IF k = 1 THEN NaN ELSE s[k - 1]]

\* a crossing counted only when the previous value is strictly on the other side
CrossoversStrict(macd) ==
    LET prev == Shift(macd)
    IN [buy  |-> [k \in DOMAIN macd |-> Gt(macd[k], 0) /\ Lt(prev[k], 0)],
        sell |-> [k \in DOMAIN macd |-> Lt(macd[k], 0) /\ Gt(prev[k], 0)]]

Crossovers(macd) ==
    LET prev == Shift(macd)
    IN [buy  |-> [k \in DOMAIN macd |-> Gt(macd[k], 0) /\ Le(prev[k], 0)],
        sell |-> [k \in DOMAIN macd |-> Lt(macd[k], 0) /\ Ge(prev[k], 0)]]

MacdSignals(frame) ==
    LET close  == Col(frame, "close")
        exp1   == Ewm(close, FastSpan)
        exp2   == Ewm(close, SlowSpan)
        macd   == [k \in DOMAIN close |-> exp1[k] - exp2[k]]
        signal == Ewm(macd, SignalSpan)
        cross  == Crossovers(macd)
    IN [exp1 |-> exp1, exp2 |-> exp2, macd |-> macd, signal |-> signal,
        hist |-> [k \in DOMAIN close |-> macd[k] - signal[k]],
        buy |-> cross.buy, sell |-> cross.sell]

----------------------------------------------------------------------------
(* get_nifty_15min and get_current_signal as the handlers call them *)

\* pd.DataFrame of an empty answer has no columns: df["datetime"] raises
GetNifty15min(z, rows) ==
    IF rows = <<>> THEN [err |-> "KeyError: datetime", frame |-> <<>>]
    ELSE [err |-> "", frame |-> Frame15(z, rows)]

\* round(v, nd) of a fixed-point value
Pow10(n) == IF n = 4 THEN 10000 ELSE 100
Round(v, nd) ==
    IF Pow10(nd) >= Scale THEN v
    ELSE LET q == Scale \div Pow10(nd) IN ((v + q \div 2) \div q) * q

NoSignal ==
    [time |-> 0, price |-> 0, macd |-> 0, signal_line |-> 0, trend |-> "",
     buy_signal |-> FALSE, sell_signal |-> FALSE, alert_class |-> ""]

NoInd == MacdSignals(<<>>)

\* the flags taken over the whole series in place of its last position
SummaryAnyCrossing(frame, s) ==
    LET n == Len(frame)
        bullish == Gt(s.macd[n], s.signal[n])
    IN [time        |-> TimeOfDay(frame[n].datetime),
        price       |-> Round(frame[n].close, 2),
        macd        |-> Round(s.macd[n], 4),
        signal_line |-> Round(s.signal[n], 4),
        trend       |-> IF bullish THEN "BULLISH" ELSE "BEARISH",
        buy_signal  |-> \E k \in DOMAIN s.buy : s.buy[k],
        sell_signal |-> \E k \in DOMAIN s.sell : s.sell[k],
        alert_class |-> IF bullish THEN "bullish" ELSE "bearish"]

Summary(frame, s) ==
    LET n == Len(frame)
        latest_close  == frame[n].close
        latest_macd   == s.macd[n]
        latest_signal == s.signal[n]
        bullish       == Gt(latest_macd, latest_signal)
    IN [time        |-> TimeOfDay(frame[n].datetime),
        price       |-> Round(latest_close, 2),
        macd        |-> Round(latest_macd, 4),
        signal_line |-> Round(latest_signal, 4),
        trend       |-> IF bullish THEN "BULLISH" ELSE "BEARISH",
        buy_signal  |-> s.buy[n],
        sell_signal |-> s.sell[n],
        alert_class |-> IF bullish THEN "bullish" ELSE "bearish"]

\* .iloc[-1] of an empty frame raises
GetCurrentSignal(z, rows) ==
    LET got == GetNifty15min(z, rows)
    IN IF got.err # "" THEN [err |-> got.err, value |-> NoSignal]
       ELSE IF got.frame = <<>> THEN [err |-> "IndexError", value |-> NoSignal]
       ELSE [err |-> "", value |-> Summary(got.frame, MacdSignals(got.frame))]

\* the page is an f-string, which already turns the doubled braces of its
\* style sheet into single ones, and is then passed to str.format
FormatPage == "KeyError: font-family"

Any(flags) == \E k \in DOMAIN flags : flags[k]

----------------------------------------------------------------------------
(* The provider's answers *)

LocalTimes == {554, 555, 560, 570, 930, 931, DayMinutes + 555}

RawTimes(z) == {t - (ToKolkata(z, 0)) : t \in LocalTimes}

RowKinds ==
    { [open |-> 1,   high |-> 2, low |-> 1, close |-> 2, volume |-> 3],
      [open |-> 2,   high |-> 2, low |-> 1, close |-> 1, volume |-> 5],
      [open |-> Bad, high |-> 9, low |-> 1, close |-> 2, volume |-> 7] }

Rows(z) ==
    { [datetime |-> t, open |-> k.open, high |-> k.high, low |-> k.low,
       close |-> k.close, volume |-> k.volume] : t \in RawTimes(z), k \in RowKinds }

Increasing(s) == \A k \in 1..(Len(s) - 1) : s[k].datetime < s[k + 1].datetime

Histories(z) ==
    { s \in UNION { [1..n -> Rows(z)] : n \in 0..MaxRows } : Increasing(s) }

\* forty consecutive 5-minute bars of one day on a linear price ramp
Ramp(z, start) ==
    [i \in 1..40 |->
        [datetime |-> start + 5 * (i - 1) - ToKolkata(z, 0),
         open |-> i, high |-> i + 1, low |-> i, close |-> i + 1, volume |-> 1]]

RampStarts == {545, 555, 560, 565}

----------------------------------------------------------------------------
(* State machine *)

Init ==
    /\ tz \in {"naive", "utc"}
    /\ hist \in Histories(tz) \cup { Ramp(tz, s) : s \in RampStarts }
    /\ route = ""
    /\ pc = "idle"
    /\ seen = <<>>
    /\ df = <<>>
    /\ ind = NoInd
    /\ current_signal = NoSignal
    /\ status = ""

\* no request is being served
Free == pc = "idle"

\* the provider publishes one more bar
ProviderAppend ==
    /\ Len(hist) < MaxFeed
    /\ \E r \in Rows(tz) :
          /\ hist # <<>> => hist[Len(hist)].datetime < r.datetime
          /\ hist' = Append(hist, r)
    /\ UNCHANGED <<tz, route, pc, seen, df, ind, current_signal, status>>

\* route "/"
dashboard ==
    /\ Free
    /\ LET r == GetCurrentSignal(tz, hist)
       IN /\ current_signal' = r.value
          /\ status' = IF r.err # "" THEN r.err ELSE FormatPage
    /\ route' = "/"
    /\ pc' = "done"
    /\ seen' = <<hist>>
    /\ df' = <<>>
    /\ ind' = NoInd
    /\ UNCHANGED <<hist, tz>>

\* route "/signal"
signal_api ==
    /\ Free
    /\ LET r == GetCurrentSignal(tz, hist)
       IN /\ current_signal' = r.value
          /\ status' = IF r.err # "" THEN r.err ELSE "ok"
    /\ route' = "/signal"
    /\ pc' = "done"
    /\ seen' = <<hist>>
    /\ df' = <<>>
    /\ ind' = NoInd
    /\ UNCHANGED <<hist, tz>>

\* route "/health"
health ==
    /\ Free
    /\ route' = "/health"
    /\ pc' = "done"
    /\ seen' = <<>>
    /\ df' = <<>>
    /\ ind' = NoInd
    /\ current_signal' = NoSignal
    /\ status' = "ok"
    /\ UNCHANGED <<hist, tz>>

\* a chart handler up to its own get_nifty_15min and macd_signals
ChartBegin(path) ==
    /\ Free
    /\ route' = path
    /\ seen' = <<hist>>
    /\ current_signal' = NoSignal
    /\ LET got == GetNifty15min(tz, hist)
       IN IF got.err # ""
          THEN /\ pc' = "done"
               /\ status' = got.err
               /\ df' = <<>>
               /\ ind' = NoInd
          ELSE /\ pc' = "fetched"
               /\ status' = ""
               /\ df' = got.frame
               /\ ind' = MacdSignals(got.frame)
    /\ UNCHANGED <<hist, tz>>

\* a chart handler from its get_current_signal to its return; draw is the
\* outcome of building the figure
ChartFinish(path, draw) ==
    /\ pc = "fetched"
    /\ route = path
    /\ seen' = Append(seen, hist)
    /\ LET r == GetCurrentSignal(tz, hist)
       IN /\ current_signal' = r.value
          /\ status' = IF r.err # "" THEN r.err
                       ELSE IF draw # "" THEN draw
                       ELSE FormatPage
    /\ pc' = "done"
    /\ UNCHANGED <<hist, tz, route, df, ind>>

nifty_chart_begin == ChartBegin("/nifty")

nifty_chart_finish == ChartFinish("/nifty", "")

macd_chart_begin == ChartBegin("/macd")

\* df.loc[buy, macd_line] names a column by a series of floats
macd_chart_finish ==
    ChartFinish("/macd", IF Any(ind.buy) \/ Any(ind.sell) THEN "KeyError: columns" ELSE "")

\* the handler returns (or Flask reports its exception) and the request ends
respond ==
    /\ pc = "done"
    /\ pc' = "idle"
    /\ route' = ""
    /\ seen' = <<>>
    /\ df' = <<>>
    /\ ind' = NoInd
    /\ current_signal' = NoSignal
    /\ status' = ""
    /\ UNCHANGED <<hist, tz>>

Next ==
    \/ ProviderAppend
    \/ respond
    \/ dashboard
    \/ signal_api
    \/ health
    \/ nifty_chart_begin
    \/ nifty_chart_finish
    \/ macd_chart_begin
    \/ macd_chart_finish

Spec == Init /\ [][Next]_vars

----------------------------------------------------------------------------
(* What the properties read *)

Charts == {"/nifty", "/macd"}

\* a chart handler holds the frame and series of its own first fetch
ChartHeld == route \in Charts /\ pc = "fetched"

\* get_current_signal returned a summary to the handler
Summarised == pc = "done" /\ route \in {"/", "/signal", "/nifty", "/macd"}
              /\ current_signal # NoSignal

Hour(h, m) == h * 60 + m

----------------------------------------------------------------------------
(* C1 *)

\* C1: macd_signals marks BUY at position i exactly when i >= 1, macd[i] > 0
\* and macd[i-1] <= 0, and SELL at i exactly when i >= 1, macd[i] < 0 and
\* macd[i-1] >= 0 (positions here are 1-based, so i >= 2); position 0 never
\* carries an event, and the series -1, -0.5, 0.2, 0.1, -0.3 gives BUY only at
\* position 2 and SELL only at position 4.
C1_ZeroLineCrossings ==
    /\ ChartHeld =>
          /\ DOMAIN ind.buy = DOMAIN ind.macd
          /\ DOMAIN ind.sell = DOMAIN ind.macd
          /\ \A k \in DOMAIN ind.macd :
                /\ ind.buy[k]  <=> (k >= 2 /\ ind.macd[k] > 0 /\ ind.macd[k - 1] <= 0)
                /\ ind.sell[k] <=> (k >= 2 /\ ind.macd[k] < 0 /\ ind.macd[k - 1] >= 0)
    /\ LET ex == Crossovers(<<-10, -5, 2, 1, -3>>)
       IN /\ ex.buy  = <<FALSE, FALSE, TRUE, FALSE, FALSE>>
          /\ ex.sell = <<FALSE, FALSE, FALSE, FALSE, TRUE>>

\* a chart handler holds a series with a BUY and a later SELL
C1_Witness ==
    /\ ChartHeld
    /\ \E k \in DOMAIN ind.buy : \E j \in DOMAIN ind.sell :
          k >= 2 /\ j > k /\ ind.buy[k] /\ ind.sell[j]

----------------------------------------------------------------------------
(* C2 *)

\* C2: the resampling step outputs exactly one bar per 15-minute bucket that
\* received at least one session bar and none for any other bucket, and each
\* bar has the open of the earliest contributing bar, the close of the latest,
\* the maximum high, the minimum low and the sum of the volumes.
C2_ResampleAggregation ==
    ChartHeld =>
       LET sess    == SessionFilter(Clean(tz, seen[1]))
           buckets == {Bucket(sess[k].datetime) : k \in DOMAIN sess}
       IN /\ {df[k].datetime : k \in DOMAIN df} = buckets
          /\ Len(df) = Cardinality(buckets)
          /\ \A k \in DOMAIN df :
                LET g == InBin(sess, df[k].datetime)
                IN /\ g # <<>>
                   /\ df[k].open = g[1].open
                   /\ df[k].close = g[Len(g)].close
                   /\ \A i \in DOMAIN g : g[i].high <= df[k].high /\ g[i].low >= df[k].low
                   /\ \E i \in DOMAIN g : g[i].high = df[k].high
                   /\ \E i \in DOMAIN g : g[i].low = df[k].low
                   /\ df[k].volume = SumSeq(Col(g, "volume"))

----------------------------------------------------------------------------
(* C3 *)

\* C3: when the provider returns zero rows, or every row is dropped, the
\* pipeline returns an explicit "no data" result and raises nothing.
C3_NoDataResult ==
    (pc = "done" /\ route = "/signal"
       /\ (seen[1] = <<>> \/ Frame15(tz, seen[1]) = <<>>))
    => status = "no data"

----------------------------------------------------------------------------
(* C4 *)

\* C4: when the resampled series has fewer than 20 bars the result is an
\* "insufficient data" outcome and not MACD, signal and buy/sell values.
C4_InsufficientData ==
    (pc = "done" /\ route = "/signal" /\ seen[1] # <<>>
       /\ Len(Frame15(tz, seen[1])) > 0 /\ Len(Frame15(tz, seen[1])) < 20)
    => (status = "insufficient data" /\ current_signal = NoSignal)

----------------------------------------------------------------------------
(* C5 *)

NumericPrices(r) == ~IsNaN(r.open) /\ ~IsNaN(r.high) /\ ~IsNaN(r.low) /\ ~IsNaN(r.close)

\* C5: a raw row in which any of open/high/low/close fails numeric coercion is
\* dropped entirely, so the returned frame is the one built from the rows with
\* numeric price fields alone, in their original order.
C5_CorruptRowDropped ==
    ChartHeld =>
       df = AssignX(Resample(SessionFilter(SelectSeq(Clean(tz, seen[1]), NumericPrices))))

----------------------------------------------------------------------------
(* C6 *)

\* C6: every handler that uses the pipeline performs exactly one provider
\* fetch, so all of a response comes from one snapshot.
C6_OneFetchPerRequest ==
    (pc = "done" /\ route \in {"/", "/signal", "/nifty", "/macd"})
    => /\ Len(seen) = 1
       /\ \A k \in DOMAIN seen : seen[k] = seen[1]

----------------------------------------------------------------------------
(* C7 *)

InWindow(r) ==
    /\ Hour(9, 15) <= TimeOfDay(r.datetime)
    /\ TimeOfDay(r.datetime) <= Hour(15, 30)

\* C7: the session filter keeps a bar if and only if its Asia/Kolkata time of
\* day t satisfies 09:15 <= t <= 15:30, both ends included, whatever its date:
\* the rows kept, and the frame built from them, are those of that window.
C7_SessionWindow ==
    ChartHeld =>
       LET rows == Clean(tz, seen[1])
       IN /\ SessionFilter(rows) = SelectSeq(rows, InWindow)
          /\ df = AssignX(Resample(SelectSeq(rows, InWindow)))

\* the provider reported a bar at 15:30 and one at 15:31; the frame's 15:30
\* bar carries the volume of the first alone
C7_Witness ==
    /\ ChartHeld
    /\ LET rows == Clean(tz, seen[1])
       IN \E i \in DOMAIN rows : \E j \in DOMAIN rows : \E k \in DOMAIN df :
             /\ TimeOfDay(rows[i].datetime) = Hour(15, 30)
             /\ TimeOfDay(rows[j].datetime) = Hour(15, 31)
             /\ df[k].datetime = rows[i].datetime
             /\ df[k].volume = rows[i].volume

----------------------------------------------------------------------------
(* C8 *)

IsDayRamp(z, h) ==
    /\ Len(h) = 40
    /\ \A k \in 1..39 : h[k + 1].datetime = h[k].datetime + 5
    /\ ToKolkata(z, h[1].datetime) \div DayMinutes = ToKolkata(z, h[40].datetime) \div DayMinutes

\* C8: the bars get_nifty_15min returns are in strictly increasing bucket
\* order and the k-th of them (from 0) has x = k, across day boundaries and
\* omitted buckets; forty 5-minute bars of one day give at most 14 bars.
C8_DensePositions ==
    ChartHeld =>
       /\ \A k \in DOMAIN df : df[k].x = k - 1
       /\ \A k \in 1..(Len(df) - 1) : df[k].datetime < df[k + 1].datetime
       /\ IsDayRamp(tz, seen[1]) => Len(df) <= 14

\* two bars on different days, hours of empty buckets between them
C8_Witness ==
    /\ ChartHeld
    /\ Len(df) >= 2
    /\ df[1].datetime \div DayMinutes < df[Len(df)].datetime \div DayMinutes
    /\ df[Len(df)].x = Len(df) - 1

----------------------------------------------------------------------------
(* C9 *)

\* C9: in the summary get_current_signal returns for a series of length n,
\* trend is BULLISH exactly when macd[n-1] > signal[n-1] and BEARISH
\* otherwise, equality included, and buy_signal and sell_signal are the flags
\* of the last position alone.
C9_LatestSignal ==
    Summarised =>
       LET s == MacdSignals(Frame15(tz, seen[Len(seen)]))
           n == Len(s.macd)
       IN /\ n >= 1
          /\ current_signal.trend = "BULLISH" <=> s.macd[n] > s.signal[n]
          /\ current_signal.trend = "BEARISH" <=> s.macd[n] <= s.signal[n]
          /\ current_signal.buy_signal = s.buy[n]
          /\ current_signal.sell_signal = s.sell[n]

\* a BUY at an earlier position, none at the last, and /signal says so
C9_Witness ==
    /\ Summarised
    /\ route = "/signal"
    /\ status = "ok"
    /\ LET s == MacdSignals(Frame15(tz, seen[1]))
       IN /\ Len(s.macd) >= 3
          /\ \E k \in 1..(Len(s.macd) - 1) : s.buy[k]
          /\ ~current_signal.buy_signal

----------------------------------------------------------------------------
(* C10 *)

\* C10: for a close series that is one constant C at every position,
\* fast EMA = slow EMA = C, MACD = signal = histogram = 0 and there is no BUY
\* or SELL at any position.
C10_ConstantClose ==
    (ChartHeld /\ \A k \in DOMAIN df : df[k].close = df[1].close) =>
       \A k \in DOMAIN df :
          /\ ind.exp1[k] = df[1].close
          /\ ind.exp2[k] = df[1].close
          /\ ind.macd[k] = 0
          /\ ind.signal[k] = 0
          /\ ind.hist[k] = 0
          /\ ~ind.buy[k]
          /\ ~ind.sell[k]

\* three bars with the same close
C10_Witness ==
    /\ ChartHeld
    /\ Len(df) >= 3
    /\ \A k \in DOMAIN df : df[k].close = df[1].close
    /\ ind.macd[Len(df)] = 0

====
